---- MODULE Spec2Model ----
(***************************************************************************)
(* Model of AdvancedStarSchemaPipeline (src/etl_olist.py): the star-schema *)
(* build of the Olist data set.  A DataFrame is a finite sequence of rows, *)
(* a row is a record of nullable columns, a nullable value is Null (<<>>)  *)
(* or a one-element tuple <<v>>.  Each step of run() is one action.        *)
(***************************************************************************)
EXTENDS Integers, Sequences, FiniteSets, TLC

VARIABLES pc, source_tables, dimensional_models, checks_run, dq_error,
          profile_file, parquet_out, exit_code, spark_stopped

vars == <<pc, source_tables, dimensional_models, checks_run, dq_error,
          profile_file, parquet_out, exit_code, spark_stopped>>

(* ------------------------------ bounds --------------------------------- *)

\* number of partitions a shuffled DataFrame may be spread over
NumPartitions == 2

\* stand-in for the 2^33 stride between the id ranges of two partitions
PartitionShift == 8

(* --------------------------- nullable values --------------------------- *)

Null == <<>>

V(x) == <<x>>

\* SQL equality used as a join or filter condition: NULL never matches
SqlEq(a, b) == a # Null /\ b # Null /\ a = b

\* the wrong null-extension of a join that coerces an unmatched row's
\* columns to a default key instead of leaving them NULL
NullRowDefaultKey(cols) == [c \in cols |-> V(-1)]

\* the columns a left join adds to a left row that matches no right row
NullRow(cols) == [c \in cols |-> Null]

EmptyDict == [n \in {} |-> <<>>]

(* --------------------------- relational helpers ------------------------ *)

RECURSIVE Flatten(_)
Flatten(ss) == IF ss = <<>> THEN <<>> ELSE Head(ss) \o Flatten(Tail(ss))

Range(s) == {s[i] : i \in 1..Len(s)}

\* DataFrame.distinct(): one row per distinct value, first occurrence kept
RECURSIVE DistinctAcc(_, _)
DistinctAcc(s, acc) ==
    IF s = <<>> THEN acc
    ELSE IF Head(s) \in Range(acc) THEN DistinctAcc(Tail(s), acc)
         ELSE DistinctAcc(Tail(s), Append(acc, Head(s)))

\* the wrong distinct() that keeps every row
DistinctKeepAll(s) == s

Distinct(s) == DistinctAcc(s, <<>>)

\* a column of a DataFrame: the value of c in each row, in row order
Column(rows, c) == [i \in 1..Len(rows) |-> rows[i][c]]

\* the rows of R whose join key (rkey, one value per row of R) equals k
Matches(k, R, rkey) ==
    LET pairs == [j \in 1..Len(R) |-> <<rkey[j], R[j]>>]
        sel   == SelectSeq(pairs, LAMBDA p : SqlEq(k, p[1]))
    IN  [j \in 1..Len(sel) |-> sel[j][2]]

\* L.join(R, lkey == rkey, "left"): every left row survives, null-extended
\* when no right row matches, repeated once per matching right row
LeftJoin(L, lkey, R, rkey, rcols) ==
    Flatten([i \in 1..Len(L) |->
        LET m == Matches(lkey[i], R, rkey)
        IN  IF m = <<>> THEN << L[i] @@ NullRow(rcols) >>
            ELSE [j \in 1..Len(m) |-> L[i] @@ m[j]]])

\* L.join(R, lkey == rkey, "inner")
InnerJoin(L, lkey, R, rkey) ==
    Flatten([i \in 1..Len(L) |->
        LET m == Matches(lkey[i], R, rkey)
        IN  [j \in 1..Len(m) |-> L[i] @@ m[j]]])

\* L.join(R, lkey == rkey, "left_anti"): the left rows with no match
LeftAntiJoin(L, lkey, R, rkey) ==
    LET idx == [i \in 1..Len(L) |-> i]
        sel == SelectSeq(idx, LAMBDA i : Matches(lkey[i], R, rkey) = <<>>)
    IN  [j \in 1..Len(sel) |-> L[sel[j]]]

\* df.select(cols)
Project(s, cols) == [i \in 1..Len(s) |-> [c \in cols |-> s[i][c]]]

(* ------------------------- surrogate key column ------------------------ *)

\* the wrong id of a build that numbers the rows of each partition from 0
\* and forgets the partition's stride
MonotonicIdNoPartition(i, nparts) == (i - 1) \div nparts

\* monotonically_increasing_id() for the i-th row of a DataFrame spread
\* round-robin over nparts partitions: partition id in the high bits, the
\* row's position inside its partition in the low bits
MonotonicId(i, nparts) ==
    ((i - 1) % nparts) * PartitionShift + ((i - 1) \div nparts)

\* df.withColumn(idcol, monotonically_increasing_id())
WithId(rows, idcol, nparts) ==
    [i \in 1..Len(rows) |-> rows[i] @@ (idcol :> V(MonotonicId(i, nparts)))]

(* ------------------------------ aggregates ----------------------------- *)

Abs(n) == IF n < 0 THEN -n ELSE n

RECURSIVE Gcd(_, _)
Gcd(a, b) == IF b = 0 THEN a ELSE Gcd(b, a % b)

\* the exact quotient n/d (d > 0) as a fraction in lowest terms
Frac(n, d) ==
    LET g == Gcd(Abs(n), d) IN [num |-> n \div g, den |-> d \div g]

RECURSIVE SumSeq(_)
SumSeq(s) == IF s = <<>> THEN 0 ELSE Head(s) + SumSeq(Tail(s))

\* the non-null values of a column, unwrapped
NonNull(vals) ==
    LET xs == SelectSeq(vals, LAMBDA v : v # Null)
    IN  [i \in 1..Len(xs) |-> xs[i][1]]

\* avg(col): nulls are skipped, the mean of no value is NULL
Avg(vals) ==
    LET xs == NonNull(vals)
    IN  IF xs = <<>> THEN Null ELSE V(Frac(SumSeq(xs), Len(xs)))

\* count(col): the number of non-null values
CountCol(vals) == Len(NonNull(vals))

MinCol(vals) ==
    LET xs == Range(NonNull(vals))
    IN  IF xs = {} THEN Null ELSE V(CHOOSE x \in xs : \A y \in xs : x <= y)

MaxCol(vals) ==
    LET xs == Range(NonNull(vals))
    IN  IF xs = {} THEN Null ELSE V(CHOOSE x \in xs : \A y \in xs : x >= y)

\* stddev(col), the sample standard deviation, kept as the fraction under
\* its square root: (n*sum(x^2) - sum(x)^2) / (n*(n-1)); NULL below 2 values
StddevCol(vals) ==
    LET xs == NonNull(vals)
        n  == Len(xs)
        s1 == SumSeq(xs)
        s2 == SumSeq([i \in 1..Len(xs) |-> xs[i] * xs[i]])
    IN  IF n < 2 THEN Null ELSE V(Frac(n * s2 - s1 * s1, n * (n - 1)))

(* ---------------------------- dates and text --------------------------- *)

\* to_date(timestamp): the calendar date, time of day dropped
to_date(ts) == IF ts = Null THEN Null ELSE V(ts[1].date)

year(d) == d[1]

month(d) == d[2]

dayofmonth(d) == d[3]

quarter(d) == ((d[2] - 1) \div 3) + 1

\* days since 1970-01-01 of the proleptic Gregorian date <<y, m, d>>
EpochDay(d) ==
    LET y   == IF d[2] <= 2 THEN d[1] - 1 ELSE d[1]
        era == y \div 400
        yoe == y - era * 400
        mp  == (d[2] + 9) % 12
        doy == ((153 * mp + 2) \div 5) + d[3] - 1
        doe == yoe * 365 + (yoe \div 4) - (yoe \div 100) + doy
    IN  era * 146097 + doe - 719468

\* date_format(d, "E"): the abbreviated day-of-week name
date_format_E(d) ==
    <<"Thu", "Fri", "Sat", "Sun", "Mon", "Tue", "Wed">>[(EpochDay(d) % 7) + 1]

UpperOf ==
    ("a" :> "A") @@ ("b" :> "B") @@ ("d" :> "D") @@ ("e" :> "E") @@
    ("h" :> "H") @@ ("t" :> "T")

LowerOf ==
    ("A" :> "a") @@ ("B" :> "b") @@ ("D" :> "d") @@ ("E" :> "e") @@
    ("H" :> "h") @@ ("T" :> "t")

IsCased(c) == c \in DOMAIN UpperOf \/ c \in DOMAIN LowerOf

ToUpper(c) == IF c \in DOMAIN UpperOf THEN UpperOf[c] ELSE c

ToLower(c) == IF c \in DOMAIN LowerOf THEN LowerOf[c] ELSE c

\* str.replace("_", " ")
ReplaceUnderscore(s) == [i \in 1..Len(s) |-> IF s[i] = "_" THEN " " ELSE s[i]]

\* str.title(): a cased character is upper-cased after an uncased one (or at
\* the start) and lower-cased after a cased one
Title(s) ==
    [i \in 1..Len(s) |->
        IF i > 1 /\ IsCased(s[i - 1]) THEN ToLower(s[i]) ELSE ToUpper(s[i])]

\* lambda s: s.replace("_", " ").title() if s else "N/A"
capitalize_udf(s) ==
    IF s = Null \/ s[1] = <<>> THEN V(<<"N", "/", "A">>)
    ELSE V(Title(ReplaceUnderscore(s[1])))

(* --------------------------- dimension builders ------------------------ *)

GeoCols == {"geolocation_zip_code_prefix", "latitude", "longitude",
            "id_geolocalizacao"}

create_dim_geolocalizacao(src, nparts) ==
    LET geo    == src["geolocation"]
        keys   == Distinct(Column(geo, "geolocation_zip_code_prefix"))
        grp(k) == SelectSeq(geo, LAMBDA r : r.geolocation_zip_code_prefix = k)
        df_geo == [i \in 1..Len(keys) |->
                     [geolocation_zip_code_prefix |-> keys[i],
                      latitude  |-> Avg(Column(grp(keys[i]), "geolocation_lat")),
                      longitude |-> Avg(Column(grp(keys[i]), "geolocation_lng"))]]
    IN  WithId(df_geo, "id_geolocalizacao", nparts)

create_dim_cliente(src, models, nparts) ==
    LET df_customers == src["customers"]
        df_geo == models["Dim_Geolocalizacao"]
        joined == LeftJoin(df_customers,
                           Column(df_customers, "customer_zip_code_prefix"),
                           df_geo,
                           Column(df_geo, "geolocation_zip_code_prefix"),
                           GeoCols)
        dim_cliente == Distinct([i \in 1..Len(joined) |->
                      [id_negocio_cliente |-> joined[i].customer_unique_id,
                       cidade_cliente     |-> joined[i].customer_city,
                       estado_cliente     |-> joined[i].customer_state,
                       id_geolocalizacao  |-> joined[i].id_geolocalizacao]])
    IN  WithId(dim_cliente, "id_cliente", nparts)

create_dim_produto(src, nparts) ==
    LET df_products == src["products"]
        df_translation == src["translation"]
        joined == LeftJoin(df_products,
                           Column(df_products, "product_category_name"),
                           df_translation,
                           Column(df_translation, "product_category_name"),
                           {"product_category_name_english"})
        dim_produto == Distinct([i \in 1..Len(joined) |->
                      [id_negocio_produto |-> joined[i].product_id,
                       categoria_produto  |->
                           capitalize_udf(joined[i].product_category_name_english),
                       product_photos_qty |-> joined[i].product_photos_qty]])
    IN  WithId(dim_produto, "id_produto", nparts)

create_dim_vendedor(src, models, nparts) ==
    LET df_sellers == src["sellers"]
        df_geo == models["Dim_Geolocalizacao"]
        joined == LeftJoin(df_sellers,
                           Column(df_sellers, "seller_zip_code_prefix"),
                           df_geo,
                           Column(df_geo, "geolocation_zip_code_prefix"),
                           GeoCols)
        dim_vendedor == Distinct([i \in 1..Len(joined) |->
                      [id_negocio_vendedor |-> joined[i].seller_id,
                       cidade_vendedor     |-> joined[i].seller_city,
                       estado_vendedor     |-> joined[i].seller_state,
                       id_geolocalizacao   |-> joined[i].id_geolocalizacao]])
    IN  WithId(dim_vendedor, "id_vendedor", nparts)

create_dim_tempo(src, nparts) ==
    LET df_orders == src["orders"]
        dates   == Distinct([i \in 1..Len(df_orders) |->
                       [data |-> to_date(df_orders[i].order_purchase_timestamp)]])
        date_df == SelectSeq(dates, LAMBDA r : r.data # Null)
        dim_tempo == [i \in 1..Len(date_df) |->
                       [data            |-> date_df[i].data,
                        ano             |-> V(year(date_df[i].data[1])),
                        mes             |-> V(month(date_df[i].data[1])),
                        dia             |-> V(dayofmonth(date_df[i].data[1])),
                        trimestre       |-> V(quarter(date_df[i].data[1])),
                        nome_dia_semana |-> V(date_format_E(date_df[i].data[1]))]]
    IN  WithId(dim_tempo, "id_tempo", nparts)

\* _create_dimensions: the five builders in the order the code calls them,
\* the customer and seller builders reading the geolocation dimension
create_dimensions(src, nparts) ==
    LET geo == ("Dim_Geolocalizacao" :> create_dim_geolocalizacao(src, nparts))
    IN  [n \in {"Dim_Geolocalizacao", "Dim_Cliente", "Dim_Produto",
                "Dim_Vendedor", "Dim_Tempo"} |->
            CASE n = "Dim_Geolocalizacao" -> geo["Dim_Geolocalizacao"]
              [] n = "Dim_Cliente"  -> create_dim_cliente(src, geo, nparts)
              [] n = "Dim_Produto"  -> create_dim_produto(src, nparts)
              [] n = "Dim_Vendedor" -> create_dim_vendedor(src, geo, nparts)
              [] n = "Dim_Tempo"    -> create_dim_tempo(src, nparts)]

(* ------------------------------ fact table ----------------------------- *)

create_fact_table(src, models) ==
    LET df_items     == src["order_items"]
        df_orders    == src["orders"]
        df_customers == Project(src["customers"],
                                {"customer_id", "customer_unique_id"})
        with_order == InnerJoin(df_items, Column(df_items, "order_id"),
                                df_orders, Column(df_orders, "order_id"))
        base_fato  == InnerJoin(with_order, Column(with_order, "customer_id"),
                                df_customers, Column(df_customers, "customer_id"))
        j1 == LeftJoin(base_fato, Column(base_fato, "product_id"),
                  models["Dim_Produto"],
                  Column(models["Dim_Produto"], "id_negocio_produto"),
                  {"id_negocio_produto", "categoria_produto",
                   "product_photos_qty", "id_produto"})
        j2 == LeftJoin(j1, Column(j1, "customer_unique_id"),
                  models["Dim_Cliente"],
                  Column(models["Dim_Cliente"], "id_negocio_cliente"),
                  {"id_negocio_cliente", "cidade_cliente", "estado_cliente",
                   "id_geolocalizacao", "id_cliente"})
        j3 == LeftJoin(j2, Column(j2, "seller_id"),
                  models["Dim_Vendedor"],
                  Column(models["Dim_Vendedor"], "id_negocio_vendedor"),
                  {"id_negocio_vendedor", "cidade_vendedor", "estado_vendedor",
                   "id_geolocalizacao", "id_vendedor"})
        fato_com_chaves ==
              LeftJoin(j3,
                  [i \in 1..Len(j3) |-> to_date(j3[i].order_purchase_timestamp)],
                  models["Dim_Tempo"], Column(models["Dim_Tempo"], "data"),
                  {"data", "ano", "mes", "dia", "trimestre",
                   "nome_dia_semana", "id_tempo"})
    IN  [i \in 1..Len(fato_com_chaves) |->
            [id_produto    |-> fato_com_chaves[i].id_produto,
             id_cliente    |-> fato_com_chaves[i].id_cliente,
             id_vendedor   |-> fato_com_chaves[i].id_vendedor,
             id_tempo      |-> fato_com_chaves[i].id_tempo,
             id_pedido     |-> fato_com_chaves[i].order_id,
             preco         |-> fato_com_chaves[i].price,
             valor_frete   |-> fato_com_chaves[i].freight_value,
             status_pedido |-> fato_com_chaves[i].order_status]]

(* ------------------------------ quality gate --------------------------- *)

\* self.config["data_quality"]["accepted_order_status"]
accepted_order_status == {"delivered", "shipped", "canceled"}

\* insertion order of self.dimensional_models, the order of every loop over it
ModelOrder == <<"Dim_Geolocalizacao", "Dim_Cliente", "Dim_Produto",
                "Dim_Vendedor", "Dim_Tempo", "Fato_Vendas">>

DimNames == {"Dim_Geolocalizacao", "Dim_Cliente", "Dim_Produto",
             "Dim_Vendedor", "Dim_Tempo"}

\* pk = f"id_{name.split('_')[1].lower()}"
PkOf(name) ==
    CASE name = "Dim_Geolocalizacao" -> "id_geolocalizacao"
      [] name = "Dim_Cliente"        -> "id_cliente"
      [] name = "Dim_Produto"        -> "id_produto"
      [] name = "Dim_Vendedor"       -> "id_vendedor"
      [] name = "Dim_Tempo"          -> "id_tempo"

\* df.filter(col(pk).isNull()).count()
NullPkCount(df, pk) == Len(SelectSeq(df, LAMBDA r : r[pk] = Null))

\* df.count() - df.select(pk).distinct().count()
DuplicatePkCount(df, pk) == Len(df) - Cardinality(Range(Column(df, pk)))

\* _check_referential_integrity: the fact rows the left_anti join keeps
check_referential_integrity(models, fact_name, fk, dim_name, pk) ==
    Len(LeftAntiJoin(models[fact_name], Column(models[fact_name], fk),
                     models[dim_name], Column(models[dim_name], pk)))

\* _check_accepted_values: ~col.isin(values) is NULL on a NULL status, and
\* filter keeps only the rows where the condition is true
check_accepted_values(models, table_name, column_name, accepted_values) ==
    Len(SelectSeq(models[table_name], LAMBDA r :
            r[column_name] # Null /\ r[column_name][1] \notin accepted_values))

\* _check_non_negative: col < 0 is NULL on a NULL value
check_non_negative(models, table_name, column_name) ==
    Len(SelectSeq(models[table_name], LAMBDA r :
            r[column_name] # Null /\ r[column_name][1] < 0))

\* the checks of _run_data_quality_checks in the order the code runs them
DimChecks ==
    Flatten([i \in 1..5 |->
        << [rule |-> "not_null_pk", table |-> ModelOrder[i]],
           [rule |-> "unique_pk",   table |-> ModelOrder[i]] >>])

QualityChecks ==
    DimChecks \o
    << [rule |-> "referential_integrity", table |-> "Fato_Vendas"],
       [rule |-> "accepted_values",       table |-> "Fato_Vendas"],
       [rule |-> "non_negative",          table |-> "Fato_Vendas"] >>

\* the number of offending records a check finds; it raises when above 0
BadRecords(models, chk) ==
    CASE chk.rule = "not_null_pk" ->
           NullPkCount(models[chk.table], PkOf(chk.table))
      [] chk.rule = "unique_pk" ->
           DuplicatePkCount(models[chk.table], PkOf(chk.table))
      [] chk.rule = "referential_integrity" ->
           check_referential_integrity(models, "Fato_Vendas", "id_produto",
                                       "Dim_Produto", "id_produto")
      [] chk.rule = "accepted_values" ->
           check_accepted_values(models, "Fato_Vendas", "status_pedido",
                                 accepted_order_status)
      [] chk.rule = "non_negative" ->
           check_non_negative(models, "Fato_Vendas", "preco")

\* the wrong gate that logs the offending records and never raises
run_data_quality_checks_no_raise(models) ==
    [ran |-> QualityChecks, error |-> Null]

\* the wrong gate that runs every check before it raises for the first
\* one that found offending records
run_data_quality_checks_collect_all(models) ==
    LET failing == {i \in 1..Len(QualityChecks) :
                        BadRecords(models, QualityChecks[i]) > 0}
    IN  IF failing = {}
        THEN [ran |-> QualityChecks, error |-> Null]
        ELSE LET i == CHOOSE k \in failing : \A j \in failing : k <= j
             IN  [ran   |-> QualityChecks,
                  error |-> V([rule  |-> QualityChecks[i].rule,
                               table |-> QualityChecks[i].table,
                               count |-> BadRecords(models, QualityChecks[i])])]

\* _run_data_quality_checks: the checks run in order and the first one that
\* finds offending records raises, which ends the pass
run_data_quality_checks(models) ==
    LET failing == {i \in 1..Len(QualityChecks) :
                        BadRecords(models, QualityChecks[i]) > 0}
    IN  IF failing = {}
        THEN [ran |-> QualityChecks, error |-> Null]
        ELSE LET i == CHOOSE k \in failing : \A j \in failing : k <= j
             IN  [ran   |-> SubSeq(QualityChecks, 1, i),
                  error |-> V([rule  |-> QualityChecks[i].rule,
                               table |-> QualityChecks[i].table,
                               count |-> BadRecords(models, QualityChecks[i])])]

(* ------------------------------- profiling ----------------------------- *)

\* select(c).summary("count", "mean", "stddev", "min", "max") of one column
Summary(vals) ==
    [count  |-> CountCol(vals),
     mean   |-> Avg(vals),
     stddev |-> StddevCol(vals),
     min    |-> MinCol(vals),
     max    |-> MaxCol(vals)]

data_profile(models) ==
    [preco       |-> Summary(Column(models["Fato_Vendas"], "preco")),
     valor_frete |-> Summary(Column(models["Fato_Vendas"], "valor_frete"))]

(* ------------------------------ source data ---------------------------- *)

\* the order in which _load_source_tables reads the files (SCHEMAS)
SchemaOrder == <<"customers", "sellers", "products", "orders",
                 "order_items", "translation", "geolocation">>

Geo(zip, lat, lng) ==
    [geolocation_zip_code_prefix |-> zip, geolocation_lat |-> lat,
     geolocation_lng |-> lng]

Customer(id, uid, zip, city, state) ==
    [customer_id |-> V(id), customer_unique_id |-> V(uid),
     customer_zip_code_prefix |-> V(zip), customer_city |-> V(city),
     customer_state |-> V(state)]

Seller(id, zip, city, state) ==
    [seller_id |-> V(id), seller_zip_code_prefix |-> V(zip),
     seller_city |-> V(city), seller_state |-> V(state)]

Product(id, cat, photos) ==
    [product_id |-> V(id), product_category_name |-> cat,
     product_photos_qty |-> photos]

Translation(cat, english) ==
    [product_category_name |-> V(cat),
     product_category_name_english |-> V(english)]

Order(id, cust, status, ts) ==
    [order_id |-> V(id), customer_id |-> V(cust), order_status |-> status,
     order_purchase_timestamp |-> ts]

Item(order, product, seller, price, freight) ==
    [order_id |-> V(order), product_id |-> V(product), seller_id |-> V(seller),
     price |-> V(price), freight_value |-> freight]

Ts(y, m, d, h) == V([date |-> <<y, m, d>>, hour |-> h])

\* coordinates are in hundredths of a degree
GeolocationInputs ==
    { << Geo(V(1310), V(-2355), V(-4663)), Geo(V(1310), V(-2356), V(-4664)) >>,
      << Geo(V(1310), V(-2355), V(-4663)), Geo(V(1310), V(-2355), V(-4663)),
         Geo(V(1310), V(-2356), V(-4664)) >>,
      << Geo(V(1310), V(-2355), V(-4663)), Geo(V(2000), Null, V(-4000)) >> }

CustomersInputs ==
    { << Customer("c1", "U1", 1310, "sao paulo", "SP") >>,
      << Customer("c1", "U1", 1310, "sao paulo", "SP"),
         Customer("c2", "U1", 1310, "sao paulo", "SP") >>,
      << Customer("c1", "U1", 1310, "sao paulo", "SP"),
         Customer("c2", "U1", 2000, "rio", "RJ") >>,
      << Customer("c1", "U1", 1310, "sao paulo", "SP"),
         Customer("c1", "U1", 1310, "sao paulo", "SP") >> }

SellersInputs ==
    { << Seller("S1", 1310, "sao paulo", "SP") >>,
      << Seller("S1", 1310, "sao paulo", "SP"),
         Seller("S1", 1310, "sao paulo", "SP") >> }

ProductsInputs ==
    { << Product("P1", V("cama"), V(2)) >>,
      << Product("P1", V("cama"), V(2)), Product("P1", V("cama"), V(2)),
         Product("P2", Null, Null) >> }

BedBath == <<"b", "e", "d", "_", "b", "a", "t", "h">>

TranslationInputs ==
    { << Translation("cama", BedBath) >>,
      << Translation("cama", BedBath), Translation("cama", BedBath) >> }

OrdersInputs ==
    { << Order("O1", "c1", V("delivered"), Ts(2017, 10, 2, 10)) >>,
      << Order("O1", "c1", V("cancelado"), Ts(2017, 10, 2, 10)) >>,
      << Order("O1", "c1", Null, Ts(2017, 10, 2, 10)) >>,
      << Order("O1", "c1", V("delivered"), Null) >>,
      << Order("O1", "c1", V("delivered"), Ts(2017, 10, 2, 10)),
         Order("O2", "c2", V("shipped"), Ts(2017, 10, 2, 23)),
         Order("O3", "c1", V("canceled"), Ts(2018, 1, 15, 8)) >> }

OrderItemsInputs ==
    { << Item("O1", "P1", "S1", 100, V(10)) >>,
      << Item("O1", "P9", "S1", 100, V(10)) >>,
      << Item("O1", "P1", "S9", 100, V(10)) >>,
      << Item("O1", "P1", "S1", -5, V(10)) >>,
      << Item("O1", "P1", "S1", 100, V(10)), Item("O1", "P2", "S1", 30, Null),
         Item("O9", "P1", "S1", 50, V(5)) >> }

\* the CSV files found under source_path
SourceInputs ==
    [customers : CustomersInputs, sellers : SellersInputs,
     products : ProductsInputs, orders : OrdersInputs,
     order_items : OrderItemsInputs, translation : TranslationInputs,
     geolocation : GeolocationInputs]

(* -------------------------------- the run ------------------------------ *)

Restrict(f, S) == [x \in S |-> f[x]]

FirstNames(order, k) == {order[i] : i \in 1..k}

Init ==
    /\ pc = "start"
    /\ source_tables = EmptyDict
    /\ dimensional_models = EmptyDict
    /\ checks_run = <<>>
    /\ dq_error = Null
    /\ profile_file = [state |-> "absent", content |-> Null]
    /\ parquet_out = EmptyDict
    /\ exit_code = Null
    /\ spark_stopped = FALSE

\* except Exception: log, sys.exit(1); finally: self.spark.stop()
Fail ==
    /\ pc' = "failed"
    /\ exit_code' = V(1)
    /\ spark_stopped' = TRUE

\* _download_and_unzip_data: the files are there or are fetched, or the
\* download fails and the process exits with 1
DownloadAndUnzipData ==
    /\ pc = "start"
    /\ \E ok \in BOOLEAN :
          IF ok THEN pc' = "downloaded" /\ UNCHANGED <<exit_code, spark_stopped>>
          ELSE Fail
    /\ UNCHANGED <<source_tables, dimensional_models, checks_run, dq_error,
                   profile_file, parquet_out>>

\* _load_source_tables: the seven files are read in SCHEMAS order; a file
\* that cannot be read raises and leaves the tables read before it
LoadSourceTables ==
    /\ pc = "downloaded"
    /\ \E files \in SourceInputs :
          \/ /\ source_tables' = files
             /\ pc' = "loaded"
             /\ UNCHANGED <<exit_code, spark_stopped>>
          \/ /\ \E k \in 0..(Len(SchemaOrder) - 1) :
                   source_tables' = Restrict(files, FirstNames(SchemaOrder, k))
             /\ Fail
    /\ UNCHANGED <<dimensional_models, checks_run, dq_error, profile_file,
                   parquet_out>>

CreateDimensions ==
    /\ pc = "loaded"
    /\ \E nparts \in 1..NumPartitions :
          dimensional_models' = create_dimensions(source_tables, nparts)
    /\ pc' = "dims"
    /\ UNCHANGED <<source_tables, checks_run, dq_error, profile_file,
                   parquet_out, exit_code, spark_stopped>>

CreateFactTable ==
    /\ pc = "dims"
    /\ dimensional_models' =
          dimensional_models @@
          ("Fato_Vendas" :> create_fact_table(source_tables, dimensional_models))
    /\ pc' = "fact"
    /\ UNCHANGED <<source_tables, checks_run, dq_error, profile_file,
                   parquet_out, exit_code, spark_stopped>>

RunDataQualityChecks ==
    /\ pc = "fact"
    /\ LET res == run_data_quality_checks(dimensional_models)
       IN  /\ checks_run' = res.ran
           /\ dq_error' = res.error
           /\ IF res.error = Null
              THEN pc' = "checked" /\ UNCHANGED <<exit_code, spark_stopped>>
              ELSE Fail
    /\ UNCHANGED <<source_tables, dimensional_models, profile_file, parquet_out>>

\* the wrong step that catches a profiling error and lets the run go on
RunDataProfilingNonFatal ==
    /\ pc = "checked"
    /\ \E outcome \in {"ok", "collect_error", "write_error"} :
          CASE outcome = "ok" ->
                 profile_file' = [state   |-> "written",
                                  content |-> V(data_profile(dimensional_models))]
            [] outcome = "collect_error" ->
                 UNCHANGED profile_file
            [] outcome = "write_error" ->
                 profile_file' = [state |-> "truncated", content |-> Null]
    /\ pc' = "profiled"
    /\ UNCHANGED <<source_tables, dimensional_models, checks_run, dq_error,
                   parquet_out, exit_code, spark_stopped>>

\* _run_data_profiling: the statistics are collected, then the report file is
\* opened for writing and written; either step may raise
RunDataProfiling ==
    /\ pc = "checked"
    /\ \E outcome \in {"ok", "collect_error", "write_error"} :
          CASE outcome = "ok" ->
                 /\ profile_file' = [state   |-> "written",
                                     content |-> V(data_profile(dimensional_models))]
                 /\ pc' = "profiled"
                 /\ UNCHANGED <<exit_code, spark_stopped>>
            [] outcome = "collect_error" ->
                 /\ UNCHANGED profile_file
                 /\ Fail
            [] outcome = "write_error" ->
                 /\ profile_file' = [state |-> "truncated", content |-> Null]
                 /\ Fail
    /\ UNCHANGED <<source_tables, dimensional_models, checks_run, dq_error,
                   parquet_out>>

\* _save_models: the models are written one after the other in dictionary
\* order; a write that raises leaves the ones written before it
SaveModels ==
    /\ pc = "profiled"
    /\ \E k \in 0..Len(ModelOrder) :
          /\ parquet_out' = Restrict(dimensional_models, FirstNames(ModelOrder, k))
          /\ IF k = Len(ModelOrder)
             THEN pc' = "done" /\ exit_code' = V(0) /\ spark_stopped' = TRUE
             ELSE Fail
    /\ UNCHANGED <<source_tables, dimensional_models, checks_run, dq_error,
                   profile_file>>

Next ==
    \/ DownloadAndUnzipData
    \/ LoadSourceTables
    \/ CreateDimensions
    \/ CreateFactTable
    \/ RunDataQualityChecks
    \/ RunDataProfiling
    \/ SaveModels

Spec == Init /\ [][Next]_vars

(* ------------------------- shared state predicates --------------------- *)

DimensionsBuilt == DimNames \subseteq DOMAIN dimensional_models

FactBuilt == "Fato_Vendas" \in DOMAIN dimensional_models

GateRan == checks_run # <<>>

GatePassed == checks_run = QualityChecks /\ dq_error = Null

NothingPersisted == profile_file.state = "absent" /\ DOMAIN parquet_out = {}

\* the fact table's foreign keys and the dimension each one refers to
ForeignKeys ==
    { <<"id_produto", "Dim_Produto">>, <<"id_cliente", "Dim_Cliente">>,
      <<"id_vendedor", "Dim_Vendedor">>, <<"id_tempo", "Dim_Tempo">> }

\* the rows of dimension dim whose surrogate key is the value v
Referenced(models, dim, v) ==
    SelectSeq(models[dim], LAMBDA d : SqlEq(d[PkOf(dim)], v))

(* ------------------------------- C1 ------------------------------------ *)

\* C1: the profiling report and the model files exist only once the quality
\* gate has run all its checks and none found an offending record; when a
\* check has raised, nothing is written and the run has ended failed.
C1_GateBeforePublication ==
    /\ ~NothingPersisted =>
          /\ GatePassed
          /\ \A i \in 1..Len(QualityChecks) :
                BadRecords(dimensional_models, QualityChecks[i]) = 0
    /\ dq_error # Null =>
          NothingPersisted /\ pc = "failed" /\ exit_code = V(1)

C1_Witness ==
    /\ pc = "done"
    /\ profile_file.state = "written"
    /\ DOMAIN parquet_out = Range(ModelOrder)
    /\ Len(parquet_out["Fato_Vendas"]) > 0

(* ------------------------------- C2 ------------------------------------ *)

\* C2: publication is all-or-nothing: at the end of a failed run neither the
\* profiling report nor any of the six models has been written.
C2_AllOrNothing ==
    pc = "failed" => profile_file.state # "written" /\ DOMAIN parquet_out = {}

(* ------------------------------- C3 ------------------------------------ *)

\* a fact row whose key fk (null included) matches no row of dimension dim
UnmatchedRows(models, fk, dim) ==
    SelectSeq(models["Fato_Vendas"],
              LAMBDA f : Referenced(models, dim, f[fk]) = <<>>)

\* C3: once the quality gate has run, a fact row whose product, customer,
\* seller or time key matches no surrogate key of its dimension has made the
\* gate fail, and nothing is published.
C3_EveryForeignKeyChecked ==
    (GateRan /\ \E p \in ForeignKeys :
                   UnmatchedRows(dimensional_models, p[1], p[2]) # <<>>)
    => (dq_error # Null /\ NothingPersisted)

(* ------------------------------- C4 ------------------------------------ *)

RulesRun == {checks_run[i].rule : i \in 1..Len(checks_run)}

\* C4 as stated: every pass of the quality gate runs all five kinds of check,
\* also when an earlier check has found a violation.
C4_AllChecksAlwaysRun ==
    GateRan => RulesRun = {"not_null_pk", "unique_pk", "referential_integrity",
                           "accepted_values", "non_negative"}

\* C4 as amended: the gate runs its checks in their fixed order and stops at
\* the first one that finds offending records; that check is the one reported
\* and no later check runs, so all checks run only on a pass with no violation.
C4_StopsAtFirstViolation ==
    GateRan =>
      LET n == Len(checks_run)
      IN  /\ n <= Len(QualityChecks)
          /\ checks_run = SubSeq(QualityChecks, 1, n)
          /\ \A i \in 1..(n - 1) :
                BadRecords(dimensional_models, QualityChecks[i]) = 0
          /\ IF BadRecords(dimensional_models, QualityChecks[n]) = 0
             THEN n = Len(QualityChecks) /\ dq_error = Null
             ELSE /\ dq_error # Null
                  /\ dq_error[1].rule = QualityChecks[n].rule
                  /\ dq_error[1].table = QualityChecks[n].table
                  /\ dq_error[1].count =
                        BadRecords(dimensional_models, QualityChecks[n])

\* a pass that stopped although a check it never ran would have failed too
C4_Witness ==
    /\ dq_error # Null
    /\ \E i \in (Len(checks_run) + 1)..Len(QualityChecks) :
          BadRecords(dimensional_models, QualityChecks[i]) > 0

(* ------------------------------- C5 ------------------------------------ *)

\* C5: in every dimension the surrogate key column holds no null and no value
\* twice: the row count equals the number of distinct surrogate keys.
C5_SurrogateKeysUnique ==
    DimensionsBuilt =>
      \A d \in DimNames :
        LET pks == Column(dimensional_models[d], PkOf(d))
        IN  /\ \A i \in 1..Len(pks) : pks[i] # Null
            /\ \A i, j \in 1..Len(pks) : pks[i] = pks[j] => i = j
            /\ Len(dimensional_models[d]) = Cardinality(Range(pks))

\* a dimension of several rows spread over more than one partition
C5_Witness ==
    /\ DimensionsBuilt
    /\ \E d \in DimNames :
          /\ Len(dimensional_models[d]) >= 2
          /\ \E i \in 1..Len(dimensional_models[d]) :
                dimensional_models[d][i][PkOf(d)][1] >= PartitionShift

(* ------------------------------- C6 ------------------------------------ *)

RefComplete(models) ==
    \A p \in ForeignKeys :
      \A i \in 1..Len(models["Fato_Vendas"]) :
        LET v == models["Fato_Vendas"][i][p[1]]
        IN  v # Null => Len(Referenced(models, p[2], v)) = 1

RECURSIVE WithoutDuplicates(_)
WithoutDuplicates(s) ==
    IF s = <<>> THEN <<>>
    ELSE LET front == SubSeq(s, 1, Len(s) - 1)
         IN  IF s[Len(s)] \in Range(front) THEN WithoutDuplicates(front)
             ELSE Append(WithoutDuplicates(front), s[Len(s)])

HasDuplicates(s) == WithoutDuplicates(s) # s

DeduplicatedSource == [t \in DOMAIN source_tables |->
                          WithoutDuplicates(source_tables[t])]

\* the rows of a dimension without its surrogate key column
WithoutKey(rows, pk) ==
    [i \in 1..Len(rows) |-> Restrict(rows[i], (DOMAIN rows[i]) \ {pk})]

\* dimension d is, but for its surrogate key, the one built from the
\* deduplicated source
SameAsFromDeduplicated(d) ==
    \E nparts \in 1..NumPartitions :
        WithoutKey(dimensional_models[d], PkOf(d)) =
        WithoutKey(create_dimensions(DeduplicatedSource, nparts)[d], PkOf(d))

\* C7 as stated: every dimension, Dim_Geolocalizacao with its mean latitude
\* and longitude included, has the rows it would have were it built from the
\* source without its exact duplicate rows.
C7_DedupIdempotentAllDimensions ==
    DimensionsBuilt => \A d \in DimNames : SameAsFromDeduplicated(d)

\* C7 as amended: Dim_Cliente, Dim_Produto, Dim_Vendedor and Dim_Tempo have
\* the rows they would have were they built from the source without its exact
\* duplicate rows; Dim_Geolocalizacao has the same postal-code prefixes, but
\* its means count every raw row, duplicates included.
C7_DedupIdempotentButMeans ==
    DimensionsBuilt =>
      /\ \A d \in DimNames \ {"Dim_Geolocalizacao"} : SameAsFromDeduplicated(d)
      /\ \E nparts \in 1..NumPartitions :
            Project(dimensional_models["Dim_Geolocalizacao"],
                    {"geolocation_zip_code_prefix", "id_geolocalizacao"}) =
            Project(create_dimensions(DeduplicatedSource, nparts)["Dim_Geolocalizacao"],
                    {"geolocation_zip_code_prefix", "id_geolocalizacao"})

\* dimensions built from sources that hold exact duplicate rows, the
\* geolocation duplicates shifting the mean
C7_Witness ==
    /\ DimensionsBuilt
    /\ HasDuplicates(source_tables["customers"])
    /\ HasDuplicates(source_tables["products"])
    /\ HasDuplicates(source_tables["geolocation"])
    /\ ~SameAsFromDeduplicated("Dim_Geolocalizacao")

(* ------------------------------- C8 ------------------------------------ *)

\* the fact rows whose status is not one of the accepted values
OutsideAllowList(models) ==
    SelectSeq(models["Fato_Vendas"], LAMBDA r :
        r.status_pedido = Null \/ r.status_pedido[1] \notin accepted_order_status)

EarlierChecksClean(models) ==
    \A i \in 1..Len(QualityChecks) :
        QualityChecks[i].rule \in {"not_null_pk", "unique_pk",
                                   "referential_integrity"}
        => BadRecords(models, QualityChecks[i]) = 0

\* C8: when Fato_Vendas holds a row whose status is not in the allow-list (and
\* no earlier check has ended the pass), the quality gate fails with the
\* accepted-values error, and the count it reports is the number of such rows.
C8_AcceptedValuesEnforced ==
    (GateRan /\ EarlierChecksClean(dimensional_models)
             /\ OutsideAllowList(dimensional_models) # <<>>)
    => /\ dq_error # Null
       /\ dq_error[1].rule = "accepted_values"
       /\ dq_error[1].count = Len(OutsideAllowList(dimensional_models))

(* ------------------------------- C9 ------------------------------------ *)

ProfilingFailed == GatePassed /\ pc = "failed" /\ profile_file.state # "written"

\* C9 as stated: a profiling failure after a passed gate does not abort the
\* run.
C9_ProfilingNonFatal ==
    (GatePassed /\ profile_file.state # "written") => pc # "failed"

\* C9 as amended: a profiling failure after a passed gate aborts the run with
\* exit code 1 and _save_models does not run: no model is persisted without
\* the written report.
C9_ProfilingFatal ==
    /\ ProfilingFailed => exit_code = V(1) /\ DOMAIN parquet_out = {}
    /\ DOMAIN parquet_out # {} => profile_file.state = "written"

C9_Witness ==
    ProfilingFailed /\ profile_file.state = "truncated"

(* ------------------------------- C10 ----------------------------------- *)

UniqueColumn(rows, c) == Cardinality(Range(Column(rows, c))) = Len(rows)

\* the order items that have a parent order whose customer is known
ItemsWithOrderAndCustomer(src) ==
    SelectSeq(src["order_items"], LAMBDA it :
        \E o \in Range(src["orders"]) :
            /\ SqlEq(it.order_id, o.order_id)
            /\ \E c \in Range(src["customers"]) :
                  SqlEq(o.customer_id, c.customer_id))

\* C10: with order_id unique in orders and customer_id unique in customers,
\* Fato_Vendas has exactly one row for each order item that has a parent
\* order and a customer, and no other row.
C10_OneFactRowPerItem ==
    (FactBuilt /\ UniqueColumn(source_tables["orders"], "order_id")
               /\ UniqueColumn(source_tables["customers"], "customer_id"))
    => Project(dimensional_models["Fato_Vendas"],
               {"id_pedido", "preco", "valor_frete"}) =
       LET items == ItemsWithOrderAndCustomer(source_tables)
       IN  [i \in 1..Len(items) |->
               [id_pedido |-> items[i].order_id, preco |-> items[i].price,
                valor_frete |-> items[i].freight_value]]

====
